---- MODULE Spec2Model ----
(***************************************************************************)
(* Produced-film detection of the Lemon screenplay pipeline:               *)
(* execution/check_produced_film.py (title normalisation, fuzzy match,     *)
(* time-boxed cache, manual overrides, retried TMDB calls) and the tools   *)
(* that call its decision function.                                        *)
(*                                                                         *)
(* Titles and dates are sequences of one-character strings, so that the    *)
(* regular expressions of normalize_title and the date parsing of          *)
(* check_if_produced are computed, not assumed.  Time is counted in whole  *)
(* days.                                                                   *)
(***************************************************************************)
EXTENDS Integers, Sequences, FiniteSets, TLC

(***************************************************************************)
(* Characters                                                              *)
(***************************************************************************)
\* str.lower() on the letters A-Z, as a function
LowerOf ==
    "A" :> "a" @@ "B" :> "b" @@ "C" :> "c" @@ "D" :> "d" @@ "E" :> "e" @@ "F" :> "f" @@
    "G" :> "g" @@ "H" :> "h" @@ "I" :> "i" @@ "J" :> "j" @@ "K" :> "k" @@ "L" :> "l" @@
    "M" :> "m" @@ "N" :> "n" @@ "O" :> "o" @@ "P" :> "p" @@ "Q" :> "q" @@ "R" :> "r" @@
    "S" :> "s" @@ "T" :> "t" @@ "U" :> "u" @@ "V" :> "v" @@ "W" :> "w" @@ "X" :> "x" @@
    "Y" :> "y" @@ "Z" :> "z"

UpperChars == DOMAIN LowerOf
LowerChars == {LowerOf[c] : c \in UpperChars}
DigitChars == {"0", "1", "2", "3", "4", "5", "6", "7", "8", "9"}
SpaceChars == {" "}
WordChars  == UpperChars \cup LowerChars \cup DigitChars \cup {"_"}

\* str.lower() on one character
ToLower(c) == IF c \in UpperChars THEN LowerOf[c] ELSE c

DigitVal(c) ==
    CASE c = "0" -> 0 [] c = "1" -> 1 [] c = "2" -> 2 [] c = "3" -> 3
      [] c = "4" -> 4 [] c = "5" -> 5 [] c = "6" -> 6 [] c = "7" -> 7
      [] c = "8" -> 8 [] c = "9" -> 9 [] OTHER -> 0

(***************************************************************************)
(* String helpers (Python str / re semantics on the characters above)      *)
(***************************************************************************)
Lower(s) == [i \in 1..Len(s) |-> ToLower(s[i])]

\* index of the first / last non-whitespace character (0 when there is none)
FirstNonSpace(s) ==
    IF \E i \in 1..Len(s) : s[i] \notin SpaceChars
    THEN CHOOSE i \in 1..Len(s) :
            /\ s[i] \notin SpaceChars
            /\ \A j \in 1..(i-1) : s[j] \in SpaceChars
    ELSE 0

LastNonSpace(s) ==
    IF \E i \in 1..Len(s) : s[i] \notin SpaceChars
    THEN CHOOSE i \in 1..Len(s) :
            /\ s[i] \notin SpaceChars
            /\ \A j \in (i+1)..Len(s) : s[j] \in SpaceChars
    ELSE 0

\* str.strip()
Strip(s) ==
    IF FirstNonSpace(s) = 0 THEN << >>
    ELSE SubSeq(s, FirstNonSpace(s), LastNonSpace(s))

RStrip(s) == SubSeq(s, 1, LastNonSpace(s))

\* s ends (before trailing whitespace) with "(dddd)"
EndsWithYear(s) ==
    LET n == LastNonSpace(s) IN
    /\ n >= 6
    /\ s[n] = ")"
    /\ s[n-5] = "("
    /\ \A i \in (n-4)..(n-1) : s[i] \in DigitChars

\* re.sub(r'\s*\(\d{4}\)\s*$', '', s)
StripYear(s) ==
    IF EndsWithYear(s) THEN RStrip(SubSeq(s, 1, LastNonSpace(s) - 6)) ELSE s

\* re.sub(r"[^\w\s]", '', s)
IsWordOrSpace(c) == c \in WordChars \cup SpaceChars
\* a variant that puts a space where a punctuation character stood
RemovePunct_space(s) == [i \in 1..Len(s) |-> IF IsWordOrSpace(s[i]) THEN s[i] ELSE " "]

RemovePunct(s) == SelectSeq(s, IsWordOrSpace)

\* s starts with the word w followed by at least one whitespace character
StartsWithWord(s, w) ==
    /\ Len(s) > Len(w)
    /\ SubSeq(s, 1, Len(w)) = w
    /\ s[Len(w) + 1] \in SpaceChars

\* s without its first n characters and without the whitespace that follows
DropWord(s, n) ==
    LET rest == SubSeq(s, n + 1, Len(s)) IN
    IF FirstNonSpace(rest) = 0 THEN << >>
    ELSE SubSeq(rest, FirstNonSpace(rest), Len(rest))

\* a variant that strips leading articles until none is left
RECURSIVE StripArticle_all(_)
StripArticle_all(s) ==
    IF StartsWithWord(s, <<"t", "h", "e">>) THEN StripArticle_all(DropWord(s, 3))
    ELSE IF StartsWithWord(s, <<"a">>) THEN StripArticle_all(DropWord(s, 1))
    ELSE IF StartsWithWord(s, <<"a", "n">>) THEN StripArticle_all(DropWord(s, 2))
    ELSE s

\* re.sub(r'^(the|a|an)\s+', '', s)
StripArticle(s) ==
    IF StartsWithWord(s, <<"t", "h", "e">>) THEN DropWord(s, 3)
    ELSE IF StartsWithWord(s, <<"a">>) THEN DropWord(s, 1)
    ELSE IF StartsWithWord(s, <<"a", "n">>) THEN DropWord(s, 2)
    ELSE s

\* re.sub(r'\s+', ' ', s): every run of whitespace becomes one space
RECURSIVE CollapseSpaces(_)
CollapseSpaces(s) ==
    IF s = << >> THEN << >>
    ELSE IF Head(s) \in SpaceChars
         THEN LET rest == Tail(s) IN
              IF FirstNonSpace(rest) = 0 THEN <<" ">>
              ELSE <<" ">> \o CollapseSpaces(SubSeq(rest, FirstNonSpace(rest), Len(rest)))
         ELSE <<Head(s)>> \o CollapseSpaces(Tail(s))

\* normalize_title
normalize_title(title) ==
    IF title = << >> THEN << >>
    ELSE Strip(CollapseSpaces(StripArticle(RemovePunct(StripYear(Strip(Lower(title)))))))

(***************************************************************************)
(* difflib.SequenceMatcher(None, a, b).ratio() and is_title_match          *)
(***************************************************************************)
\* length of the longest common prefix of a[i..] and b[j..]
RECURSIVE CommonLen(_, _, _, _)
CommonLen(a, b, i, j) ==
    IF i > Len(a) \/ j > Len(b) \/ a[i] # b[j] THEN 0
    ELSE 1 + CommonLen(a, b, i + 1, j + 1)

MaxOf(S) == CHOOSE x \in S : \A y \in S : y <= x
MinOf(S) == CHOOSE x \in S : \A y \in S : x <= y

\* find_longest_match: the longest block, the earliest in a, then in b
LongestMatch(a, b) ==
    LET k == MaxOf({0} \cup {CommonLen(a, b, i, j) : i \in 1..Len(a), j \in 1..Len(b)})
        i == MinOf({x \in 1..Len(a) : \E y \in 1..Len(b) : CommonLen(a, b, x, y) = k})
        j == MinOf({y \in 1..Len(b) : CommonLen(a, b, i, y) = k})
    IN  IF k = 0 THEN <<0, 0, 0>> ELSE <<i, j, k>>

\* get_matching_blocks: the number of matched characters
RECURSIVE MatchCount(_, _)
MatchCount(a, b) ==
    IF a = << >> \/ b = << >> THEN 0
    ELSE LET m == LongestMatch(a, b) IN
         IF m[3] = 0 THEN 0
         ELSE m[3]
              + MatchCount(SubSeq(a, 1, m[1] - 1), SubSeq(b, 1, m[2] - 1))
              + MatchCount(SubSeq(a, m[1] + m[3], Len(a)), SubSeq(b, m[2] + m[3], Len(b)))

\* a is a contiguous part of b (Python's "a in b")
IsSubstring(a, b) ==
    \E i \in 0..(Len(b) - Len(a)) : SubSeq(b, i + 1, i + Len(a)) = a

\* the default threshold 0.85 of is_title_match, as the fraction 17/20
ThresholdNum == 17
ThresholdDen == 20

\* ratio() >= threshold, with ratio() = 2*M / (len(a) + len(b))
RatioAtLeast(a, b) ==
    2 * MatchCount(a, b) * ThresholdDen >= ThresholdNum * (Len(a) + Len(b))

\* a variant without the containment rule
is_title_match_ratio_only(screenplay_title, tmdb_title) ==
    LET norm1 == normalize_title(screenplay_title)
        norm2 == normalize_title(tmdb_title)
    IN  IF norm1 = << >> \/ norm2 = << >> THEN FALSE
        ELSE IF norm1 = norm2 THEN TRUE
        ELSE RatioAtLeast(norm1, norm2)

is_title_match(screenplay_title, tmdb_title) ==
    LET norm1 == normalize_title(screenplay_title)
        norm2 == normalize_title(tmdb_title)
    IN  IF norm1 = << >> \/ norm2 = << >> THEN FALSE
        ELSE IF norm1 = norm2 THEN TRUE
        ELSE IF IsSubstring(norm1, norm2) \/ IsSubstring(norm2, norm1) THEN TRUE
        ELSE RatioAtLeast(norm1, norm2)

(***************************************************************************)
(* Configuration (check_produced_film.py, lines 41-64)                     *)
(***************************************************************************)
CACHE_EXPIRY_DAYS == 30
\* a variant that also counts a planned film as produced
PRODUCED_STATUSES_planned == {"Released", "Post Production", "In Production", "Planned"}

PRODUCED_STATUSES == {"Released", "Post Production", "In Production"}
RETRYABLE_EXCEPTIONS ==
    {"ConnectError", "TimeoutException", "HTTPStatusError", "ConnectionError", "TimeoutError"}

\* stop_after_attempt(3) of both retry decorators
MaxAttempts == 3

\* Python's None in a string field and in a title / date field
PyNone  == "<None>"
NoneSeq == <<"<None>">>

(***************************************************************************)
(* Bounds and the inputs drawn from them                                   *)
(***************************************************************************)
MaxNow     == 31    \* the clock stops advancing here (days)
MaxChecks  == 2     \* decisions made in one behaviour
MaxResults == 2     \* candidates in one search response

TickSteps == {29, 30, 31}

T_JUNO     == <<"J", "U", "N", "O">>
T_THE_JUNO == <<"T", "h", "e", " ", "J", "u", "n", "o">>
T_UP       == <<"U", "p">>
\* the titles asked about: "The Juno" has the key "juno", "Up" the key "up"
QueryTitles == {T_THE_JUNO, T_UP}

\* titles given to normalize_title and is_title_match on their own
T_HANNA == <<"H", "a", "n", "n", "a">>

Titles ==
    [ \* "Bucket List"
      bucket_list |->
          <<"B", "u", "c", "k", "e", "t", " ", "L", "i", "s", "t">>,
      \* "THE BUCKET LIST"
      the_bucket_list |->
          <<"T", "H", "E", " ", "B", "U", "C", "K", "E", "T", " ", "L", "I",
            "S", "T">>,
      \* "bucket-list"
      bucket_hyphen |->
          <<"b", "u", "c", "k", "e", "t", "-", "l", "i", "s", "t">>,
      \* "The Movie"
      the_movie |->
          <<"T", "h", "e", " ", "M", "o", "v", "i", "e">>,
      \* "The The Movie"
      the_the_movie |->
          <<"T", "h", "e", " ", "T", "h", "e", " ", "M", "o", "v", "i", "e">>,
      \* "Juno: A Film"
      juno_film |->
          <<"J", "u", "n", "o", ":", " ", "A", " ", "F", "i", "l", "m">>,
      \* "Juneau"
      juneau |->
          <<"J", "u", "n", "e", "a", "u">>,
      \* "Juno (1999) (2007)"
      juno_years |->
          <<"J", "u", "n", "o", " ", "(", "1", "9", "9", "9", ")", " ", "(",
            "2", "0", "0", "7", ")">>,
      \* "?!"
      marks |->
          <<"?", "!">>,
      \* "- the Up"
      dash_the_up |->
          <<"-", " ", "t", "h", "e", " ", "U", "p">>,
      \* "Hannah and Her Sisters"
      hannah |->
          <<"H", "a", "n", "n", "a", "h", " ", "a", "n", "d", " ", "H", "e",
            "r", " ", "S", "i", "s", "t", "e", "r", "s">> ]

\* titles compared with one another
MatchTitles ==
    {T_JUNO, T_HANNA, Titles.juno_film, Titles.juneau, Titles.juno_years, Titles.marks,
     Titles.dash_the_up, Titles.bucket_list, Titles.the_bucket_list,
     Titles.bucket_hyphen, Titles.the_the_movie, Titles.hannah}

\* two titles before the title functions are applied: a is made from b in the
\* way kind says, at position pos with the character ch where that applies
NewProbe(kind, a, b, pos, ch) ==
    [stage |-> "in", kind |-> kind, a |-> a, b |-> b, pos |-> pos, ch |-> ch,
     key_a |-> << >>, key_b |-> << >>, twice |-> << >>, match |-> FALSE]

NoProbe == NewProbe("none", << >>, << >>, 0, " ")

\* the pairs of titles: a title varied in case, by an article in front, by a
\* punctuation character put in, by a hyphen in the place of a space, and the
\* titles of MatchTitles against one another
TitleProbes ==
    LET BaseTitles == {Titles.bucket_list, Titles.the_movie, T_UP}
        Articles   == {<<"T", "h", "e">>, <<"A">>, <<"a", "n">>}
        PunctChars == {":", "'", "-", "_"}
        ToUpper(c) == IF c \in LowerChars THEN CHOOSE u \in UpperChars : LowerOf[u] = c ELSE c
        Upper(s)   == [i \in 1..Len(s) |-> ToUpper(s[i])]
        InsertAt(s, p, ch) == SubSeq(s, 1, p) \o <<ch>> \o SubSeq(s, p + 1, Len(s))
    IN  {NewProbe("case", Upper(b), b, 0, " ") : b \in BaseTitles}
        \cup {NewProbe("case", Lower(b), b, 0, " ") : b \in BaseTitles}
        \cup {NewProbe("article", art \o <<" ">> \o b, b, 0, " ") : art \in Articles, b \in BaseTitles}
        \cup UNION {{NewProbe("punct", InsertAt(b, p, ch), b, p, ch) : p \in 0..Len(b), ch \in PunctChars}
                      : b \in BaseTitles}
        \cup UNION {{NewProbe("hyphen", [b EXCEPT ![p] = "-"], b, p, "-") : p \in {i \in 1..Len(b) : b[i] = " "}}
                      : b \in BaseTitles}
        \cup {NewProbe("pair", a, b, 0, " ") : a, b \in MatchTitles}

\* --year-context: 0 stands for "not given" (None and 0 are both falsy in the code)
YearContexts == {0, 2007}

\* The films the lookup service may return for a search: one released in the
\* context year, one released before it, one with a longer title and no date.
\* None of them matches the title "Up".
Catalog ==
    { [id |-> "m1", title |-> <<"J", "u", "n", "o">>,
       release_date |-> <<"2", "0", "0", "7", "-", "1", "2", "-", "0", "5">>],
      [id |-> "m2", title |-> <<"J", "u", "n", "o">>,
       release_date |-> <<"2", "0", "0", "3", "-", "0", "5", "-", "0", "1">>],
      [id |-> "m3", title |-> <<"J", "u", "n", "o", ":", " ", "A", " ", "P", "e", "n">>,
       release_date |-> << >>] }

\* search responses: lists of distinct candidates, in the order the service gives
RECURSIVE ListsUpTo(_)
ListsUpTo(n) ==
    IF n = 0 THEN {<< >>}
    ELSE LET shorter == ListsUpTo(n - 1) IN
         shorter \cup
         {Append(l, c) : l \in {x \in shorter : Len(x) = n - 1},
                         c \in Catalog}
NoRepeat(l) == \A i, j \in 1..Len(l) : i # j => l[i] # l[j]
ResultLists == {l \in ListsUpTo(MaxResults) : NoRepeat(l)}

\* the "status" of a details response; PyNone: the response has no status key
DetailStatuses ==
    {"Released", "Post Production", "In Production", "Planned", PyNone}

\* what one HTTP attempt can raise: an exception class and, for
\* HTTPStatusError, the status code
AttemptErrors ==
    { [exc |-> "ConnectError", code |-> 0],
      [exc |-> "HTTPStatusError", code |-> 401],
      [exc |-> "JSONDecodeError", code |-> 0] }
NoError == [exc |-> "none", code |-> 0]

\* the override file: raw titles as the operator wrote them
\* load_overrides when the file is missing
NoOverrides == [force_analyze |-> {}, force_skip |-> {}]

\* with the first, "JUNO" is in both lists (as "The Juno" and as "JUNO") and "Up"
\* is in force_skip alone; with the second, "Up" is in force_analyze alone
OverrideFiles ==
    { [force_analyze |-> {T_THE_JUNO}, force_skip |-> {T_JUNO, T_UP}],
      [force_analyze |-> {T_UP}, force_skip |-> {}] }

(***************************************************************************)
(* Cache entries and the cache document                                    *)
(***************************************************************************)
\* the entry written at lines 288-296 (confidence high) and 346-355 (medium)
NegativeEntry(conf, t) ==
    [is_produced |-> FALSE, tmdb_id |-> PyNone, title |-> NoneSeq,
     release_date |-> NoneSeq, status |-> PyNone, checked_at |-> t,
     confidence |-> conf]

\* a variant that files the negative verdict with full confidence
NegativeEntryNoMatch_high(t, n) ==
    [is_produced |-> FALSE, tmdb_id |-> PyNone, title |-> NoneSeq,
     release_date |-> NoneSeq, status |-> PyNone, checked_at |-> t,
     confidence |-> "high", note |-> n]

NegativeEntryNoMatch(t, n) ==
    [is_produced |-> FALSE, tmdb_id |-> PyNone, title |-> NoneSeq,
     release_date |-> NoneSeq, status |-> PyNone, checked_at |-> t,
     confidence |-> "medium", note |-> n]

\* a variant that marks a positive entry as the unmatched negative one is marked
PositiveEntry_medium(cand, st, t) ==
    [is_produced |-> TRUE, tmdb_id |-> cand.id, title |-> cand.title,
     release_date |-> cand.release_date, status |-> st, checked_at |-> t,
     confidence |-> "medium"]

\* the entry written at lines 332-340
PositiveEntry(cand, st, t) ==
    [is_produced |-> TRUE, tmdb_id |-> cand.id, title |-> cand.title,
     release_date |-> cand.release_date, status |-> st, checked_at |-> t,
     confidence |-> "high"]

\* load_cache when the file is missing or unreadable
EmptyCache == [entries |-> << >>, last_updated |-> -1]

\* a variant that updates the fields of an entry already there and keeps the
\* others (dict.update in the place of the assignment)
PutEntry_update(c, key, entry) ==
    LET old == IF key \in DOMAIN c.entries THEN c.entries[key] ELSE entry
        merged == [f \in DOMAIN old \cup DOMAIN entry |->
                     IF f \in DOMAIN entry THEN entry[f] ELSE old[f]]
    IN  [c EXCEPT !.entries =
            [k \in DOMAIN c.entries \cup {key} |->
                IF k = key THEN merged ELSE c.entries[k]]]

\* cache.setdefault("entries", {})[key] = entry
PutEntry(c, key, entry) ==
    [c EXCEPT !.entries =
        [k \in DOMAIN c.entries \cup {key} |->
            IF k = key THEN entry ELSE c.entries[k]]]

\* a variant that already expires an entry on its last day
Expired_ge(entry, t) == t - entry.checked_at >= CACHE_EXPIRY_DAYS

\* an entry older than CACHE_EXPIRY_DAYS (timedelta comparison, line 184)
Expired(entry, t) == t - entry.checked_at > CACHE_EXPIRY_DAYS

\* get_cached_result: TRUE when it returns an entry
CacheHit(ttl, c, t) ==
    LET key == normalize_title(ttl) IN
    /\ key \in DOMAIN c.entries
    /\ ~(c.entries[key].checked_at >= 0 /\ Expired(c.entries[key], t))

get_cached_result(ttl, c) == c.entries[normalize_title(ttl)]

\* a checked_at string that datetime.fromisoformat cannot parse
BadStamp == -2

\* get_cached_result, line 181: fromisoformat raises ValueError, and nothing in
\* get_cached_result or check_if_produced catches it
get_cached_raises(ttl, c) ==
    LET key == normalize_title(ttl) IN
    /\ key \in DOMAIN c.entries
    /\ c.entries[key].checked_at = BadStamp

\* release_date.split("-")[0]
FirstField(d) ==
    IF \E i \in 1..Len(d) : d[i] = "-"
    THEN SubSeq(d, 1, MinOf({i \in 1..Len(d) : d[i] = "-"}) - 1)
    ELSE d

\* int(s) raises ValueError
IntFails(s) == s = << >> \/ \E i \in 1..Len(s) : s[i] \notin DigitChars

RECURSIVE IntOf(_)
IntOf(s) ==
    IF s = << >> THEN 0
    ELSE 10 * IntOf(SubSeq(s, 1, Len(s) - 1)) + DigitVal(s[Len(s)])

\* a variant that also skips a candidate released in the context year itself
SkippedByYear_le(cand, yc) ==
    /\ yc # 0
    /\ cand.release_date # << >>
    /\ ~IntFails(FirstField(cand.release_date))
    /\ IntOf(FirstField(cand.release_date)) <= yc

\* a variant with no year filter
SkippedByYear_off(cand, yc) == FALSE

\* lines 312-319: the candidate is skipped as released before the context year
SkippedByYear(cand, yc) ==
    /\ yc # 0
    /\ cand.release_date # << >>
    /\ ~IntFails(FirstField(cand.release_date))
    /\ IntOf(FirstField(cand.release_date)) < yc

\* a variant that stops one attempt later
RetryDecision_four(err, n) ==
    IF err.exc \in RETRYABLE_EXCEPTIONS /\ n <= MaxAttempts THEN "retry" ELSE "raise"

\* retry_if_exception_type(RETRYABLE_EXCEPTIONS) with stop_after_attempt(3) and
\* reraise=True: what the decorator does after attempt number n raised err
RetryDecision(err, n) ==
    IF err.exc \in RETRYABLE_EXCEPTIONS /\ n < MaxAttempts THEN "retry" ELSE "raise"

\* a variant that runs the force_skip loop first
check_override_skip_first(ovr, ttl) ==
    LET key == normalize_title(ttl) IN
    IF \E f \in ovr.force_skip : normalize_title(f) = key THEN "FORCE_SKIP"
    ELSE IF \E f \in ovr.force_analyze : normalize_title(f) = key THEN "FORCE_ANALYZE"
    ELSE "NONE"

\* a variant that never looks at the override file
check_override_none(ovr, ttl) == "NONE"

\* main, lines 400-410: the two override loops
check_override(ovr, ttl) ==
    LET key == normalize_title(ttl) IN
    IF \E f \in ovr.force_analyze : normalize_title(f) = key THEN "FORCE_ANALYZE"
    ELSE IF \E f \in ovr.force_skip : normalize_title(f) = key THEN "FORCE_SKIP"
    ELSE "NONE"

VARIABLES
    now,            \* the clock, in days
    overrides,      \* .tmp/produced_overrides.json
    cacheFile,      \* .tmp/produced_films_cache.json
    consumer,       \* the running program: "cli", "validate", "cleanup" or "none"
    api_key,        \* whether it found TMDB_API_KEY in its environment
    pc,             \* its position
    title,          \* the title being decided
    year_context,   \* and its year context (0: none)
    cache,          \* the cache dictionary in memory
    results,        \* the list search_tmdb returned
    idx,            \* position of the for loop over results
    call,           \* the client call in progress: function, attempts, state, error
    details_status, \* the status in the details response for the candidate
    ret,            \* what check_if_produced returned
    exitCode,       \* exit code of the check-only CLI (-1: none yet)
    toDelete,       \* cleanup tool: titles collected for deletion
    report,         \* validation tool: <<title, is_produced>> rows
    searchCalls,    \* calls of search_tmdb made by this decision
    detailCalls,    \* calls of get_movie_details made by this decision
    file0,          \* the cache file as it was when this decision began
    nChecks,        \* decisions begun so far
    torn,           \* the bytes on disk are a cut-off cache document, not JSON
    peer,           \* a second check process at work on the same cache file
    probe,          \* a pair of titles and what the title functions make of them
    batch,          \* run_v6_analysis of the batch driver for one screenplay
    ingest,         \* analyze_screenplay of the ingest pipeline for one screenplay
    fs,             \* the analysis directory, the backup directory and index.json
    tenacity        \* the exponent wait_exponential of the installed tenacity uses

vars == <<now, overrides, cacheFile, consumer, api_key, pc, title, year_context, cache,
          results, idx, call, details_status, ret, exitCode, toDelete, report,
          searchCalls, detailCalls, file0, nChecks, torn, peer, probe, batch, ingest, fs, tenacity>>

\* the second process before it starts
NoPeer == [pc |-> "idle", title |-> << >>, cache |-> EmptyCache]

NoCall ==
    [fn |-> "none", attempts |-> 0, state |-> "idle", err |-> NoError, slept |-> << >>]
NoRet  == [is_produced |-> FALSE, reason |-> "none", details |-> [none |-> TRUE]]

\* run_v6_analysis before it is called
NoBatch == [pc |-> "idle", outcome |-> "none", rc |-> -1, is_produced |-> FALSE]

\* analyze_screenplay before it is called
NoIngest == [pc |-> "idle", title |-> << >>, rc |-> -1, skipped_produced |-> 0]

\* the analysis directory holds one analysis file for each title, nothing has
\* been backed up, index.json has not been rewritten
NoFs ==
    [files |-> QueryTitles, backups |-> {}, handled |-> {}, index_written |-> FALSE,
     dry_run |-> FALSE, execute |-> FALSE]

\* nothing has run yet, the cache file does not exist
InitRun ==
    /\ now = 0
    /\ overrides = NoOverrides
    /\ cacheFile = EmptyCache
    /\ consumer = "none"
    /\ api_key = FALSE
    /\ pc = "idle"
    /\ title = << >>
    /\ year_context = 0
    /\ cache = EmptyCache
    /\ results = << >>
    /\ idx = 0
    /\ call = NoCall
    /\ details_status = PyNone
    /\ ret = NoRet
    /\ exitCode = -1
    /\ toDelete = {}
    /\ report = {}
    /\ searchCalls = 0
    /\ detailCalls = 0
    /\ file0 = EmptyCache
    /\ nChecks = 0
    /\ torn = FALSE
    /\ peer = NoPeer
    /\ batch = NoBatch
    /\ ingest = NoIngest
    /\ fs = NoFs

Init == InitRun /\ probe = NoProbe /\ tenacity = "attempt_number - 1"

\* a variant of save_cache that first merges in what the file holds by now
save_cache_merge(c) ==
    [entries |-> [k \in DOMAIN cacheFile.entries \cup DOMAIN c.entries |->
                    IF k \in DOMAIN c.entries THEN c.entries[k]
                    ELSE cacheFile.entries[k]],
     last_updated |-> now]

\* load_cache: the document on disk; a missing file, and one that json.load
\* rejects, read as EmptyCache
load_cache == IF torn THEN EmptyCache ELSE cacheFile

\* save_cache: stamps last_updated and rewrites the whole file
save_cache(c) == [c EXCEPT !.last_updated = now]

Idle == pc \in {"idle", "done"}

\* between runs the last process is gone, and its memory with it
ProcessGone ==
    /\ pc' = "idle"
    /\ consumer' = "none"
    /\ api_key' = FALSE
    /\ title' = << >>
    /\ year_context' = 0
    /\ cache' = EmptyCache
    /\ results' = << >>
    /\ idx' = 0
    /\ call' = NoCall
    /\ details_status' = PyNone
    /\ ret' = NoRet
    /\ exitCode' = -1
    /\ toDelete' = {}
    /\ report' = {}
    /\ searchCalls' = 0
    /\ detailCalls' = 0
    /\ file0' = cacheFile
    /\ UNCHANGED <<cacheFile, nChecks, torn, peer, probe, batch, ingest, fs, tenacity>>

\* time passes between runs
Tick(d) ==
    /\ Idle
    /\ now + d <= MaxNow
    /\ now' = now + d
    /\ ProcessGone
    /\ UNCHANGED overrides

\* the operator writes the override file between runs
EditOverrides(o) ==
    /\ Idle
    /\ overrides = NoOverrides
    /\ overrides' = o
    /\ ProcessGone
    /\ UNCHANGED now

\* a decision begins: the per-decision counters start afresh
BeginDecision(t, yc) ==
    /\ title' = t
    /\ year_context' = yc
    /\ results' = << >>
    /\ idx' = 0
    /\ call' = NoCall
    /\ details_status' = PyNone
    /\ ret' = NoRet
    /\ searchCalls' = 0
    /\ detailCalls' = 0
    /\ file0' = cacheFile
    /\ nChecks' = nChecks + 1

(***************************************************************************)
(* The check-only CLI: main of check_produced_film.py                      *)
(***************************************************************************)
\* lines 384-418: arguments, API key, overrides, then the call of
\* check_if_produced with no cache argument
CliMain(t, yc, hasKey) ==
    /\ Idle
    /\ nChecks < MaxChecks
    /\ consumer' = "cli"
    /\ api_key' = hasKey
    /\ BeginDecision(t, yc)
    /\ IF ~hasKey
       THEN exitCode' = 2 /\ pc' = "done"
       ELSE IF check_override(overrides, t) = "FORCE_ANALYZE"
       THEN exitCode' = 0 /\ pc' = "done"
       ELSE IF check_override(overrides, t) = "FORCE_SKIP"
       THEN exitCode' = 1 /\ pc' = "done"
       ELSE exitCode' = -1 /\ pc' = "check"
    /\ UNCHANGED <<tenacity, ingest, fs, probe, batch, peer, torn, now, overrides, cacheFile, cache, toDelete, report>>

\* lines 420-425: the exit code from the returned tuple.  check_if_produced
\* catches every exception of the client, so the except branch (exit code 2,
\* lines 427-430) is not taken from here.
CliExitCode(r) == IF r.is_produced THEN 1 ELSE 0

CliFinish ==
    /\ pc = "returned"
    /\ consumer = "cli"
    /\ exitCode' = CliExitCode(ret)
    /\ pc' = "done"
    /\ UNCHANGED <<tenacity, ingest, fs, probe, batch, peer, torn, now, overrides, cacheFile, consumer, api_key, title, year_context, cache,
                   results, idx, call, details_status, ret, toDelete, report,
                   searchCalls, detailCalls, file0, nChecks>>

(***************************************************************************)
(* check_if_produced                                                       *)
(***************************************************************************)
\* the cache argument: the tools pass their dictionary, the CLI passes none
CacheArg == IF consumer = "cli" THEN load_cache ELSE cache

\* a variant that reuses an entry only for a call without a year_context
CheckCache_without_year ==
    /\ pc = "check"
    /\ cache' = CacheArg
    /\ IF get_cached_raises(title, CacheArg)
       THEN /\ ret' = ret
            /\ call' = call
            /\ searchCalls' = searchCalls
            /\ IF consumer = "cli"
               THEN exitCode' = 2 /\ pc' = "done"
               ELSE exitCode' = exitCode /\ pc' = "toolloop"
       ELSE IF CacheHit(title, CacheArg, now) /\ year_context = 0
       THEN /\ ret' = [is_produced |-> get_cached_result(title, CacheArg).is_produced,
                       reason |-> "CACHED",
                       details |-> get_cached_result(title, CacheArg)]
            /\ pc' = "returned"
            /\ call' = call
            /\ searchCalls' = searchCalls
            /\ exitCode' = exitCode
       ELSE /\ ret' = ret
            /\ pc' = "search"
            /\ call' = [fn |-> "search", attempts |-> 0, state |-> "running",
                        err |-> NoError, slept |-> << >>]
            /\ searchCalls' = searchCalls + 1
            /\ exitCode' = exitCode
    /\ UNCHANGED <<tenacity, ingest, fs, probe, batch, peer, torn, now, overrides, cacheFile, consumer, api_key, title, year_context,
                   results, idx, details_status, toDelete, report,
                   detailCalls, file0, nChecks>>

\* lines 268-276: load the cache if none was passed, return a fresh entry.  An
\* exception of get_cached_result leaves check_if_produced: main of the CLI
\* catches it and returns 2 (lines 427-430), the tools log it and go on to the
\* next file.
CheckCache ==
    /\ pc = "check"
    /\ cache' = CacheArg
    /\ IF get_cached_raises(title, CacheArg)
       THEN /\ ret' = ret
            /\ call' = call
            /\ searchCalls' = searchCalls
            /\ IF consumer = "cli"
               THEN exitCode' = 2 /\ pc' = "done"
               ELSE exitCode' = exitCode /\ pc' = "toolloop"
       ELSE IF CacheHit(title, CacheArg, now)
       THEN /\ ret' = [is_produced |-> get_cached_result(title, CacheArg).is_produced,
                       reason |-> "CACHED",
                       details |-> get_cached_result(title, CacheArg)]
            /\ pc' = "returned"
            /\ call' = call
            /\ searchCalls' = searchCalls
            /\ exitCode' = exitCode
       ELSE /\ ret' = ret
            /\ pc' = "search"
            /\ call' = [fn |-> "search", attempts |-> 0, state |-> "running",
                        err |-> NoError, slept |-> << >>]
            /\ searchCalls' = searchCalls + 1
            /\ exitCode' = exitCode
    /\ UNCHANGED <<tenacity, ingest, fs, probe, batch, peer, torn, now, overrides, cacheFile, consumer, api_key, title, year_context,
                   results, idx, details_status, toDelete, report,
                   detailCalls, file0, nChecks>>

\* one attempt of a decorated client function raised err: the decorator keeps
\* the outcome of the attempt, then sleeps and tries again, or lets the
\* exception of this last attempt out (reraise=True)
\* a variant of the wait without its lower limit
wait_exponential_no_min(multiplier, min, max, attempt_number) ==
    LET exp == 2 ^ (IF tenacity = "attempt_number - 1" THEN attempt_number - 1
                    ELSE attempt_number)
        result == multiplier * exp
    IN  IF result < max THEN result ELSE max

\* tenacity.wait_exponential(multiplier, min, max) with exp_base 2, called after
\* attempt attempt_number has failed: max(max(0, min), min(multiplier * exp, max)).
\* Current releases of the library take exp = 2 ** (attempt_number - 1),
\* earlier ones took 2 ** attempt_number; the repository pins no release.
wait_exponential(multiplier, min, max, attempt_number) ==
    LET exp == 2 ^ (IF tenacity = "attempt_number - 1" THEN attempt_number - 1
                    ELSE attempt_number)
        result == multiplier * exp
        capped == IF result < max THEN result ELSE max
        floor == IF min > 0 THEN min ELSE 0
    IN  IF floor > capped THEN floor ELSE capped

\* a variant that retries without counting the attempt
AfterError_uncounted(err) ==
    IF err.exc \in RETRYABLE_EXCEPTIONS
    THEN [call EXCEPT !.err = err]
    ELSE [call EXCEPT !.attempts = call.attempts + 1, !.err = err, !.state = "raised"]

\* the retry decorators, lines 191-197 and 223-229: after a failed attempt the
\* call is either retried, after a sleep of wait_exponential(multiplier=1,
\* min=2, max=10) seconds, or the exception is let out
AfterError(err) ==
    IF RetryDecision(err, call.attempts + 1) = "retry"
    THEN [call EXCEPT !.attempts = call.attempts + 1, !.err = err,
                      !.slept = Append(@, wait_exponential(1, 2, 10, call.attempts + 1))]
    ELSE [call EXCEPT !.attempts = call.attempts + 1, !.err = err, !.state = "raised"]

\* a variant of the write-back that leaves out save_cache
StoreAndReturn_unsaved(entry, reason) ==
    /\ cache' = PutEntry(cache, normalize_title(title), entry)
    /\ cacheFile' = cacheFile
    /\ torn' = torn
    /\ ret' = [is_produced |-> entry.is_produced, reason |-> reason, details |-> entry]
    /\ pc' = "returned"

\* the write-back of a verdict: entry under the normalized title, then save_cache
StoreAndReturn(entry, reason) ==
    /\ cache' = save_cache(PutEntry(cache, normalize_title(title), entry))
    /\ cacheFile' = save_cache(PutEntry(cache, normalize_title(title), entry))
    /\ torn' = FALSE
    /\ ret' = [is_produced |-> entry.is_produced, reason |-> reason, details |-> entry]
    /\ pc' = "returned"

\* a variant of the except branch that caches the failure as a negative verdict
OnSearchError_cached ==
    /\ cache' = save_cache(PutEntry(cache, normalize_title(title),
                                    NegativeEntry("medium", now)))
    /\ cacheFile' = save_cache(PutEntry(cache, normalize_title(title),
                                        NegativeEntry("medium", now)))
    /\ torn' = FALSE
    /\ ret' = [is_produced |-> FALSE, reason |-> "ERROR",
               details |-> [error |-> call.err]]
    /\ pc' = "returned"

\* lines 282-284: the except branch around search_tmdb
OnSearchError ==
    /\ ret' = [is_produced |-> FALSE, reason |-> "ERROR",
               details |-> [error |-> call.err]]
    /\ pc' = "returned"
    /\ UNCHANGED <<cache, cacheFile, torn>>

\* a variant that begins the loop at the last candidate
SearchOk_from_last(r) ==
    /\ pc = "search"
    /\ call.state = "running"
    /\ call' = NoCall
    /\ results' = r
    /\ IF r = << >>
       THEN /\ StoreAndReturn(NegativeEntry("high", now), "NOT PRODUCED: none found")
            /\ idx' = idx
       ELSE /\ idx' = Len(r)
            /\ pc' = "loop"
            /\ UNCHANGED <<cache, cacheFile, torn, ret>>
    /\ UNCHANGED <<tenacity, ingest, fs, probe, batch, peer, now, overrides, consumer, api_key, title, year_context,
                   details_status, exitCode, toDelete, report, searchCalls,
                   detailCalls, file0, nChecks>>

\* search_tmdb, lines 191-220, one HTTP attempt that returns the list r, and the
\* caller's lines 286-301: no results (negative entry, confidence high) or the
\* start of the loop over the candidates
SearchOk(r) ==
    /\ pc = "search"
    /\ call.state = "running"
    /\ call' = NoCall
    /\ results' = r
    /\ IF r = << >>
       THEN /\ StoreAndReturn(NegativeEntry("high", now), "NOT PRODUCED: none found")
            /\ idx' = idx
       ELSE /\ idx' = 1
            /\ pc' = "loop"
            /\ UNCHANGED <<cache, cacheFile, torn, ret>>
    /\ UNCHANGED <<tenacity, ingest, fs, probe, batch, peer, now, overrides, consumer, api_key, title, year_context,
                   details_status, exitCode, toDelete, report, searchCalls,
                   detailCalls, file0, nChecks>>

\* search_tmdb: one HTTP attempt that raises
SearchFail(err) ==
    /\ pc = "search"
    /\ call.state = "running"
    /\ call' = AfterError(err)
    /\ UNCHANGED <<tenacity, ingest, fs, probe, batch, peer, torn, now, overrides, cacheFile, consumer, api_key, pc, title,
                   year_context, cache, results, idx, details_status, ret, exitCode,
                   toDelete, report, searchCalls, detailCalls, file0, nChecks>>

\* lines 280-284: search_tmdb let an exception out; the error tuple is returned
SearchRaised ==
    /\ pc = "search"
    /\ call.state = "raised"
    /\ OnSearchError
    /\ call' = NoCall
    /\ UNCHANGED <<tenacity, ingest, fs, probe, batch, peer, now, overrides, consumer, api_key, title, year_context, results,
                   idx, details_status, exitCode, toDelete, report, searchCalls,
                   detailCalls, file0, nChecks>>

\* lines 302-319 and 345-358: the head of the for loop for candidate idx, or the
\* code after the loop when the list is exhausted
LoopStep ==
    /\ pc = "loop"
    /\ IF idx > Len(results)
       THEN /\ StoreAndReturn(NegativeEntryNoMatch(now, Len(results)),
                              "NOT PRODUCED: none matched")
            /\ UNCHANGED <<idx, call, detailCalls>>
       ELSE IF \/ ~is_title_match(title, results[idx].title)
               \/ SkippedByYear(results[idx], year_context)
       THEN /\ idx' = idx + 1
            /\ UNCHANGED <<pc, cache, cacheFile, torn, ret, call, detailCalls>>
       ELSE /\ pc' = "details"
            /\ call' = [fn |-> "details", attempts |-> 0, state |-> "running",
                        err |-> NoError, slept |-> << >>]
            /\ detailCalls' = detailCalls + 1
            /\ UNCHANGED <<idx, cache, cacheFile, torn, ret>>
    /\ UNCHANGED <<tenacity, ingest, fs, probe, batch, peer, now, overrides, consumer, api_key, title, year_context, results,
                   details_status, exitCode, toDelete, report, searchCalls,
                   file0, nChecks>>

\* line 324, details.get("status", "Unknown"), for a response with status st
StatusFromDetails(st) == IF st = PyNone THEN "Unknown" ELSE st

\* a variant in which a failed details call never assumes a status
StatusOnFailure_unknown(cand) == "Unknown"

\* lines 325-328: the status assumed when get_movie_details raised
StatusOnFailure(cand) == IF cand.release_date # << >> THEN "Released" ELSE "Unknown"

\* lines 330-343: a produced status stores the positive entry and returns; any
\* other status goes on to the next candidate
Classify(status) ==
    IF status \in PRODUCED_STATUSES
    THEN /\ StoreAndReturn(PositiveEntry(results[idx], status, now), "PRODUCED")
         /\ idx' = idx
    ELSE /\ idx' = idx + 1
         /\ pc' = "loop"
         /\ UNCHANGED <<cache, cacheFile, torn, ret>>

\* get_movie_details, lines 223-247, one HTTP attempt that returns details with
\* status st, and the caller's lines 324 and 330-343
DetailsOk(st) ==
    /\ pc = "details"
    /\ call.state = "running"
    /\ call' = NoCall
    /\ details_status' = st
    /\ Classify(StatusFromDetails(st))
    /\ UNCHANGED <<tenacity, ingest, fs, probe, batch, peer, now, overrides, consumer, api_key, title, year_context, results,
                   exitCode, toDelete, report, searchCalls, detailCalls, file0,
                   nChecks>>

\* get_movie_details: one HTTP attempt that raises
DetailsFail(err) ==
    /\ pc = "details"
    /\ call.state = "running"
    /\ call' = AfterError(err)
    /\ UNCHANGED <<tenacity, ingest, fs, probe, batch, peer, torn, now, overrides, cacheFile, consumer, api_key, pc, title,
                   year_context, cache, results, idx, details_status, ret, exitCode,
                   toDelete, report, searchCalls, detailCalls, file0, nChecks>>

\* lines 325-343: get_movie_details let an exception out
DetailsRaised ==
    /\ pc = "details"
    /\ call.state = "raised"
    /\ call' = NoCall
    /\ details_status' = PyNone
    /\ Classify(StatusOnFailure(results[idx]))
    /\ UNCHANGED <<tenacity, ingest, fs, probe, batch, peer, now, overrides, consumer, api_key, title, year_context, results,
                   exitCode, toDelete, report, searchCalls, detailCalls, file0,
                   nChecks>>

(***************************************************************************)
(* The tools that call check_if_produced in a loop with one dictionary:    *)
(* validate_produced_films.py and cleanup_produced_films.py                *)
(***************************************************************************)
Tools == {"validate", "cleanup"}

\* validate lines 214-254, cleanup lines 75-99: without an API key the tool ends
\* at once; otherwise it loads the cache once
ToolStart(c, hasKey) ==
    /\ Idle
    /\ nChecks < MaxChecks
    /\ consumer' = c
    /\ api_key' = hasKey
    /\ toDelete' = {}
    /\ report' = {}
    /\ IF hasKey
       THEN cache' = load_cache /\ pc' = "toolloop"
       ELSE cache' = cache /\ pc' = "done"
    /\ UNCHANGED <<tenacity, ingest, fs, probe, batch, peer, torn, now, overrides, cacheFile, title, year_context, results, idx,
                   call, details_status, ret, exitCode, searchCalls, detailCalls,
                   file0, nChecks>>

\* validate lines 257-311, cleanup lines 112-122: the next file's title goes to
\* check_if_produced; cleanup passes no year context
ToolCheck(t, yc) ==
    /\ pc = "toolloop"
    /\ nChecks < MaxChecks
    /\ consumer = "cleanup" => yc = 0
    /\ BeginDecision(t, yc)
    /\ pc' = "check"
    /\ UNCHANGED <<tenacity, ingest, fs, probe, batch, peer, torn, now, overrides, cacheFile, consumer, api_key, cache, exitCode, toDelete,
                   report>>

\* validate lines 313-346, cleanup lines 124-130: record the verdict
ToolRecord ==
    /\ pc = "returned"
    /\ consumer \in Tools
    /\ IF consumer = "cleanup"
       THEN /\ toDelete' = IF ret.is_produced THEN toDelete \cup {title} ELSE toDelete
            /\ report' = report
       ELSE /\ report' = report \cup {<<title, ret.is_produced>>}
            /\ toDelete' = toDelete
    /\ pc' = "toolloop"
    /\ UNCHANGED <<tenacity, ingest, fs, probe, batch, peer, torn, now, overrides, cacheFile, consumer, api_key, title, year_context, cache,
                   results, idx, call, details_status, ret, exitCode, searchCalls,
                   detailCalls, file0, nChecks>>

\* validate lines 359-388: save the cache once more and end
ValidateFinish ==
    /\ pc = "toolloop"
    /\ consumer = "validate"
    /\ cacheFile' = save_cache(cache)
    /\ cache' = save_cache(cache)
    /\ torn' = FALSE
    /\ pc' = "done"
    /\ UNCHANGED <<tenacity, ingest, fs, probe, batch, peer, now, overrides, consumer, api_key, title, year_context, results, idx,
                   call, details_status, ret, exitCode, toDelete, report,
                   searchCalls, detailCalls, file0, nChecks>>

\* cleanup lines 135-157 and 185-192: the loop is over.  The flags of the run
\* have had no effect so far, except that a run with neither flag ended at
\* once (lines 69-73); with --execute and something to delete the deletion
\* begins, whether or not --dry-run was given too
CleanupFinish(dry_run, execute) ==
    /\ pc = "toolloop"
    /\ consumer = "cleanup"
    /\ dry_run \/ execute
    /\ fs' = [fs EXCEPT !.dry_run = dry_run, !.execute = execute, !.handled = {}]
    /\ pc' = IF execute /\ toDelete # {} THEN "deleting" ELSE "done"
    /\ UNCHANGED <<tenacity, ingest, probe, batch, peer, torn, now, overrides, cacheFile, consumer, api_key,
                   title, year_context, cache, results, idx, call, details_status, ret,
                   exitCode, toDelete, report, searchCalls, detailCalls, file0,
                   nChecks>>

\* a variant of the deletion that removes the file without a copy
CleanupDelete_nobackup(t, outcome) ==
    /\ pc = "deleting"
    /\ t \in toDelete \ fs.handled
    /\ fs' = [fs EXCEPT !.handled = @ \cup {t}, !.files = @ \ {t}]
    /\ UNCHANGED <<tenacity, pc, ingest, probe, batch, peer, torn, now, overrides, cacheFile, consumer,
                   api_key, title, year_context, cache, results, idx, call,
                   details_status, ret, exitCode, toDelete, report, searchCalls,
                   detailCalls, file0, nChecks>>

\* cleanup lines 159-172, one file of to_delete: shutil.copy2 into the backup
\* directory, then unlink; an exception of either is logged and the loop goes on
CleanupDelete(t, outcome) ==
    /\ pc = "deleting"
    /\ t \in toDelete \ fs.handled
    /\ fs' = [fs EXCEPT
                !.handled = @ \cup {t},
                !.backups = IF outcome = "copy raised" THEN @ ELSE @ \cup {t},
                !.files = IF outcome = "deleted" THEN @ \ {t} ELSE @]
    /\ UNCHANGED <<tenacity, pc, ingest, probe, batch, peer, torn, now, overrides, cacheFile, consumer,
                   api_key, title, year_context, cache, results, idx, call,
                   details_status, ret, exitCode, toDelete, report, searchCalls,
                   detailCalls, file0, nChecks>>

\* cleanup lines 174-183: index.json is rewritten with the files that remain
CleanupIndex ==
    /\ pc = "deleting"
    /\ toDelete \subseteq fs.handled
    /\ fs' = [fs EXCEPT !.index_written = TRUE]
    /\ pc' = "done"
    /\ UNCHANGED <<tenacity, ingest, probe, batch, peer, torn, now, overrides, cacheFile, consumer, api_key,
                   title, year_context, cache, results, idx, call, details_status, ret,
                   exitCode, toDelete, report, searchCalls, detailCalls, file0,
                   nChecks>>

(***************************************************************************)
(* A second run of the check-only CLI, started by the batch driver as a    *)
(* process of its own, on the same cache file.  Its search finds nothing;  *)
(* its write is followed step by step: open(CACHE_FILE, 'w') cuts the file *)
(* to nothing, json.dump and the close complete it.                        *)
(***************************************************************************)
\* check_if_produced lines 268-276 in the second process: load the file, return
\* a fresh entry or go on to the search
PeerLoad(t) ==
    /\ peer.pc = "idle"
    /\ peer' = IF CacheHit(t, load_cache, now)
               THEN [pc |-> "hit", title |-> t, cache |-> load_cache]
               ELSE [pc |-> "lookup", title |-> t, cache |-> load_cache]
    /\ UNCHANGED <<tenacity, ingest, fs, probe, batch, torn, now, overrides, cacheFile, consumer, api_key, pc, title,
                   year_context, cache, results, idx, call, details_status, ret,
                   exitCode, toDelete, report, searchCalls, detailCalls, file0,
                   nChecks>>

\* lines 286-297 and save_cache up to its open(): no results, the negative entry
\* goes into the dictionary, the file is opened for writing and is empty
PeerSaveBegin ==
    /\ peer.pc = "lookup"
    /\ peer' = [peer EXCEPT
                  !.pc = "writing",
                  !.cache = PutEntry(peer.cache, normalize_title(peer.title),
                                     NegativeEntry("high", now))]
    /\ torn' = TRUE
    /\ UNCHANGED <<tenacity, ingest, fs, probe, batch, now, overrides, cacheFile, consumer, api_key, pc, title,
                   year_context, cache, results, idx, call, details_status, ret,
                   exitCode, toDelete, report, searchCalls, detailCalls, file0,
                   nChecks>>

\* save_cache, json.dump and the end of the with block: the document is whole
PeerSaveEnd ==
    /\ peer.pc = "writing"
    /\ peer' = [peer EXCEPT !.pc = "done"]
    /\ cacheFile' = save_cache(peer.cache)
    /\ torn' = FALSE
    /\ UNCHANGED <<tenacity, ingest, fs, probe, batch, now, overrides, consumer, api_key, pc, title,
                   year_context, cache, results, idx, call, details_status, ret,
                   exitCode, toDelete, report, searchCalls, detailCalls, file0,
                   nChecks>>

\* batch_process_v6.check_tmdb, subprocess.run(..., timeout=30): the child is
\* killed where it stands, here inside json.dump
PeerKilled ==
    /\ peer.pc = "writing"
    /\ peer' = [peer EXCEPT !.pc = "killed"]
    /\ UNCHANGED <<tenacity, ingest, fs, probe, batch, torn, now, overrides, cacheFile, consumer, api_key, pc, title,
                   year_context, cache, results, idx, call, details_status, ret,
                   exitCode, toDelete, report, searchCalls, detailCalls, file0,
                   nChecks>>

\* between runs the cache file is damaged: "cut" leaves a document that json.load
\* rejects, "stamp" leaves valid JSON in which the checked_at of one entry is
\* no ISO date
DamageKinds == {"cut", "stamp"}

DamageFile(kind, k) ==
    /\ Idle
    /\ ~torn
    /\ \A e \in DOMAIN cacheFile.entries : cacheFile.entries[e].checked_at # BadStamp
    /\ IF kind = "cut"
       THEN /\ torn' = TRUE
            /\ cacheFile' = cacheFile
       ELSE /\ k \in DOMAIN cacheFile.entries
            /\ torn' = torn
            /\ cacheFile' = [cacheFile EXCEPT !.entries[k].checked_at = BadStamp]
    /\ UNCHANGED <<tenacity, ingest, fs, probe, batch, peer, now, overrides, consumer, api_key, pc, title,
                   year_context, cache, results, idx, call, details_status, ret,
                   exitCode, toDelete, report, searchCalls, detailCalls, file0,
                   nChecks>>

(***************************************************************************)
(* The batch driver: run_v6_analysis and check_tmdb of batch_process_v6.py  *)
(* for one screenplay.  The check-only CLI above runs as its child process. *)
(***************************************************************************)
\* a variant of check_tmdb that takes every non-zero exit code for "produced"
check_tmdb_result_nonzero(outcome, rc) == outcome = "exit" /\ rc # 0

\* check_tmdb lines 98-116: is_produced from the way subprocess.run ended
check_tmdb_result(outcome, rc) == outcome = "exit" /\ rc = 1

\* run_v6_analysis lines 166-177: an analysis that exists is kept unless forced;
\* --skip-tmdb goes straight to the analysis; otherwise check_tmdb is called
RunV6Analysis(exists, force, skip_tmdb) ==
    /\ batch.pc = "idle"
    /\ batch' = [batch EXCEPT
                   !.pc = IF exists /\ ~force THEN "already"
                          ELSE IF skip_tmdb THEN "analysis"
                          ELSE "tmdb"]
    /\ UNCHANGED <<tenacity, ingest, fs, probe, peer, torn, now, overrides, cacheFile, consumer, api_key, pc, title,
                   year_context, cache, results, idx, call, details_status, ret,
                   exitCode, toDelete, report, searchCalls, detailCalls, file0,
                   nChecks>>

\* check_tmdb lines 105-110 and run_v6_analysis lines 178-190: the child has
\* exited, its return code decides between the skip and the analysis
CheckTmdbReturn ==
    /\ batch.pc = "tmdb"
    /\ consumer = "cli"
    /\ pc = "done"
    /\ batch' = [pc |-> IF check_tmdb_result("exit", exitCode) THEN "skipped" ELSE "analysis",
                 outcome |-> "exit",
                 rc |-> exitCode,
                 is_produced |-> check_tmdb_result("exit", exitCode)]
    /\ UNCHANGED <<tenacity, ingest, fs, probe, peer, torn, now, overrides, cacheFile, consumer, api_key, pc, title,
                   year_context, cache, results, idx, call, details_status, ret,
                   exitCode, toDelete, report, searchCalls, detailCalls, file0,
                   nChecks>>

\* check_tmdb lines 112-116: subprocess.run raises, TimeoutExpired after 30
\* seconds with the child still at work (it is killed where it stands), any
\* other exception when the child could not be started
CheckTmdbRaised(exc) ==
    /\ batch.pc = "tmdb"
    /\ IF exc = "TimeoutExpired"
       THEN consumer = "cli" /\ pc # "done"
       ELSE consumer = "none"
    /\ batch' = [pc |-> IF check_tmdb_result(exc, -1) THEN "skipped" ELSE "analysis",
                 outcome |-> exc,
                 rc |-> -1,
                 is_produced |-> check_tmdb_result(exc, -1)]
    /\ UNCHANGED <<tenacity, ingest, fs, probe, peer, torn, now, overrides, cacheFile, consumer, api_key, pc, title,
                   year_context, cache, results, idx, call, details_status, ret,
                   exitCode, toDelete, report, searchCalls, detailCalls, file0,
                   nChecks>>

(***************************************************************************)
(* The ingest pipeline: ScreenplayIngester.analyze_screenplay and          *)
(* check_tmdb of ingest_screenplays.py for one screenplay                  *)
(***************************************************************************)
\* analyze_screenplay lines 240-268: an analysis that exists is kept unless
\* forced, a dry run analyses nothing, --skip-tmdb goes straight to the
\* analysis (check_tmdb lines 222-223); otherwise the check is started
IngestAnalyze(t, exists, force, dry_run, skip_tmdb) ==
    /\ ingest.pc = "idle"
    /\ Idle
    /\ ingest' = [ingest EXCEPT
                    !.title = t,
                    !.pc = IF exists /\ ~force THEN "already"
                           ELSE IF dry_run THEN "dryrun"
                           ELSE IF skip_tmdb THEN "analysis"
                           ELSE "tmdb"]
    /\ UNCHANGED <<tenacity, fs, probe, batch, peer, torn, now, overrides, cacheFile, consumer, api_key, pc,
                   title, year_context, cache, results, idx, call, details_status, ret,
                   exitCode, toDelete, report, searchCalls, detailCalls, file0,
                   nChecks>>

\* check_tmdb line 227 and main lines 363-384 of check_produced_film.py: the
\* child is started with the title as a bare argument, [script, title], while
\* main declares --title with required=True; parse_args prints the usage and
\* exits with 2 before the title is looked at
IngestChildUsageError ==
    /\ ingest.pc = "tmdb"
    /\ Idle
    /\ pc' = "usage"
    /\ consumer' = "cli"
    /\ exitCode' = 2
    /\ api_key' = FALSE
    /\ title' = << >>
    /\ year_context' = 0
    /\ cache' = EmptyCache
    /\ results' = << >>
    /\ idx' = 0
    /\ call' = NoCall
    /\ details_status' = PyNone
    /\ ret' = NoRet
    /\ toDelete' = {}
    /\ report' = {}
    /\ searchCalls' = 0
    /\ detailCalls' = 0
    /\ file0' = cacheFile
    /\ UNCHANGED <<tenacity, ingest, fs, probe, batch, peer, torn, now, overrides, cacheFile, nChecks>>

\* check_tmdb lines 231-238 and analyze_screenplay lines 264-268: return code 1
\* counts the screenplay as skipped, any other goes on to the analysis
IngestCheckReturn ==
    /\ ingest.pc = "tmdb"
    /\ pc = "usage"
    /\ ingest' = [ingest EXCEPT
                    !.rc = exitCode,
                    !.pc = IF exitCode = 1 THEN "skipped" ELSE "analysis",
                    !.skipped_produced = IF exitCode = 1 THEN @ + 1 ELSE @]
    /\ UNCHANGED <<tenacity, fs, probe, batch, peer, torn, now, overrides, cacheFile, consumer, api_key, pc,
                   title, year_context, cache, results, idx, call, details_status, ret,
                   exitCode, toDelete, report, searchCalls, detailCalls, file0,
                   nChecks>>

\* normalize_title on both titles and once more on its own result, and
\* is_title_match on the pair with the default threshold
ApplyTitleFunctions ==
    /\ probe.stage = "in"
    /\ probe' = [probe EXCEPT
                   !.stage = "out",
                   !.key_a = normalize_title(probe.a),
                   !.key_b = normalize_title(probe.b),
                   !.twice = normalize_title(normalize_title(probe.a)),
                   !.match = is_title_match(probe.a, probe.b)]
    /\ UNCHANGED <<tenacity, ingest, fs, batch, peer, torn, now, overrides, cacheFile, consumer, api_key, pc, title,
                   year_context, cache, results, idx, call, details_status, ret,
                   exitCode, toDelete, report, searchCalls, detailCalls, file0,
                   nChecks>>

\* the steps of check_if_produced and of the client, whoever called
Decide ==
    \/ CheckCache
    \/ \E r \in ResultLists : SearchOk(r)
    \/ \E e \in AttemptErrors : SearchFail(e)
    \/ SearchRaised
    \/ LoopStep
    \/ \E st \in DetailStatuses : DetailsOk(st)
    \/ \E e \in AttemptErrors : DetailsFail(e)
    \/ DetailsRaised

\* runs of the check-only CLI, one title each
CliRun ==
    \/ \E t \in QueryTitles, yc \in YearContexts, k \in BOOLEAN : CliMain(t, yc, k)
    \/ CliFinish
    \/ Decide

\* runs of the CLI over a month, with no override file
Next ==
    \/ \E d \in TickSteps : Tick(d)
    \/ CliRun

Spec == Init /\ [][Next]_vars

\* runs of the CLI within one day, the operator writing the override file
NextOverrides ==
    \/ \E o \in OverrideFiles : EditOverrides(o)
    \/ CliRun

SpecOverrides == Init /\ [][NextOverrides]_vars

\* runs of the validation tool and of the cleanup tool, within one day
NextTools ==
    \/ Decide
    \/ \E o \in OverrideFiles : EditOverrides(o)
    \/ \E c \in Tools, k \in BOOLEAN : ToolStart(c, k)
    \/ \E t \in QueryTitles, yc \in YearContexts : ToolCheck(t, yc)
    \/ ToolRecord
    \/ ValidateFinish
    \/ CleanupFinish(TRUE, FALSE)

SpecTools == Init /\ [][NextTools]_vars

\* runs of the check-only CLI with an API key and no override file, a month and
\* a day apart or on the same day
NextDecisions ==
    \/ Tick(MaxNow)
    \/ \E t \in QueryTitles, yc \in YearContexts : CliMain(t, yc, TRUE)
    \/ CliFinish
    \/ Decide

SpecDecisions == Init /\ [][NextDecisions]_vars

\* one run of the check-only CLI, with either formula of the library installed
InitBackoff ==
    InitRun /\ probe = NoProbe /\ tenacity \in {"attempt_number - 1", "attempt_number"}

NextBackoff ==
    \/ \E t \in QueryTitles, yc \in YearContexts : nChecks = 0 /\ CliMain(t, yc, TRUE)
    \/ CliFinish
    \/ Decide

SpecBackoff == InitBackoff /\ [][NextBackoff]_vars

\* runs of the cleanup tool with its flags, within one day; between two runs a
\* checked_at of the cache file may get damaged
NextCleanup ==
    \/ Decide
    \/ \E k \in BOOLEAN : ToolStart("cleanup", k)
    \/ \E t \in QueryTitles : ToolCheck(t, 0)
    \/ ToolRecord
    \/ \E dry_run, execute \in BOOLEAN : CleanupFinish(dry_run, execute)
    \/ \E t \in QueryTitles, outcome \in {"deleted", "copy raised", "unlink raised"} :
          CleanupDelete(t, outcome)
    \/ CleanupIndex
    \/ \E k \in {normalize_title(t) : t \in QueryTitles} : DamageFile("stamp", k)

SpecCleanup == Init /\ [][NextCleanup]_vars

\* two runs of the check-only CLI side by side on a cache file not yet written,
\* as the batch driver starts them, one title each, both with an API key and
\* without a year context
NextRace ==
    \/ \E t \in QueryTitles : nChecks = 0 /\ CliMain(t, 0, TRUE)
    \/ CliFinish
    \/ Decide
    \/ \E t \in QueryTitles : PeerLoad(t)
    \/ PeerSaveBegin
    \/ PeerSaveEnd
    \/ PeerKilled

SpecRace == Init /\ [][NextRace]_vars

\* runs of the check-only CLI, with an API key and without a year context, on a
\* cache file that gets damaged between two runs
NextDamage ==
    \/ \E kind \in DamageKinds, k \in {normalize_title(t) : t \in QueryTitles} :
          DamageFile(kind, k)
    \/ \E t \in QueryTitles : CliMain(t, 0, TRUE)
    \/ CliFinish
    \/ Decide

SpecDamage == Init /\ [][NextDamage]_vars

\* the batch driver at one screenplay: the child runs while check_tmdb waits
NextBatch ==
    \/ \E exists, force, skip_tmdb \in BOOLEAN : RunV6Analysis(exists, force, skip_tmdb)
    \/ \E t \in QueryTitles, yc \in YearContexts, k \in BOOLEAN :
          batch.pc = "tmdb" /\ consumer = "none" /\ CliMain(t, yc, k)
    \/ batch.pc = "tmdb" /\ Decide
    \/ batch.pc = "tmdb" /\ CliFinish
    \/ CheckTmdbReturn
    \/ \E exc \in {"TimeoutExpired", "Exception"} : CheckTmdbRaised(exc)

SpecBatch == Init /\ [][NextBatch]_vars

\* a run of the check-only CLI that fills the cache, then the ingest pipeline at
\* one screenplay
NextIngest ==
    \/ \E t \in QueryTitles : ingest.pc = "idle" /\ nChecks = 0 /\ CliMain(t, 0, TRUE)
    \/ CliFinish
    \/ Decide
    \/ \E t \in QueryTitles, exists, force, dry_run, skip_tmdb \in BOOLEAN :
          IngestAnalyze(t, exists, force, dry_run, skip_tmdb)
    \/ IngestChildUsageError
    \/ IngestCheckReturn

SpecIngest == Init /\ [][NextIngest]_vars

\* what the lookup service holds for the query "Hanna": the film of 2011 and
\* "Hannah and Her Sisters" of 1986
HannaFilms ==
    { [id |-> "h1", title |-> T_HANNA,
       release_date |-> <<"2", "0", "1", "1", "-", "0", "4", "-", "0", "1">>],
      [id |-> "h2", title |-> Titles.hannah,
       release_date |-> <<"1", "9", "8", "6", "-", "0", "2", "-", "0", "1">>] }

\* runs of the check-only CLI for "Hanna" with the year context 2006; the search
\* returns both films, in either order
NextHanna ==
    \/ CliMain(T_HANNA, 2006, TRUE)
    \/ CliFinish
    \/ CheckCache
    \/ \E r \in {l \in [1..2 -> HannaFilms] : l[1] # l[2]} : SearchOk(r)
    \/ \E e \in AttemptErrors : SearchFail(e)
    \/ SearchRaised
    \/ LoopStep
    \/ \E st \in DetailStatuses : DetailsOk(st)
    \/ \E e \in AttemptErrors : DetailsFail(e)
    \/ DetailsRaised

SpecHanna == Init /\ [][NextHanna]_vars

\* the title functions applied to one pair of titles
InitTitles == InitRun /\ probe \in TitleProbes /\ tenacity = "attempt_number - 1"

NextTitles == ApplyTitleFunctions

SpecTitles == InitTitles /\ [][NextTitles]_vars

(***************************************************************************)
(* Properties.  They are stated over what an observer of a run sees: the   *)
(* override file, the cache file before and after, the calls made, the     *)
(* returned tuple and the exit code.                                       *)
(***************************************************************************)
\* the cache key of the title being decided
Key == normalize_title(title)

InForceAnalyze(t) == \E f \in overrides.force_analyze : normalize_title(f) = normalize_title(t)
InForceSkip(t)    == \E f \in overrides.force_skip : normalize_title(f) = normalize_title(t)

\* a run of the check-only CLI that found its API key and has exited
CliDone == pc = "done" /\ consumer = "cli" /\ api_key

\* check_if_produced has returned to its caller
Returned == pc = "returned" \/ (pc = "done" /\ ret.reason # "none")

\* check_if_produced is past its cache check
PastCacheCheck == pc \in {"search", "loop", "details"} \/ Returned

\* the entry the cache file held for the title when the decision began
HadEntry == Key \in DOMAIN file0.entries
Age0     == now - file0.entries[Key].checked_at

\* the release year of a candidate lies strictly before year yc
ReleasedBefore(cand, yc) ==
    /\ Len(cand.release_date) >= 4
    /\ IntOf(SubSeq(cand.release_date, 1, 4)) < yc

\* candidate j passes the title match and the year-context filter
Eligible(j) ==
    /\ is_title_match(title, results[j].title)
    /\ ~(year_context # 0 /\ ReleasedBefore(results[j], year_context))

\* the candidates whose turn in the loop has come and is past the filter
Reached ==
    IF pc = "loop" THEN 1..(idx - 1)
    ELSE IF pc = "details" \/ (Returned /\ ret.reason = "PRODUCED") THEN 1..idx
    ELSE IF Returned /\ ret.reason = "NOT PRODUCED: none matched" THEN 1..Len(results)
    ELSE {}

\* C1 as stated: a title matching both force_skip and force_analyze is decided
\* produced, the CLI exits with code 1
C1_ForceSkipWins ==
    (CliDone /\ InForceSkip(title) /\ InForceAnalyze(title)) => exitCode = 1

\* C1: a title matching both force_analyze and force_skip is decided by
\* force_analyze, whose loop runs first: not produced, the CLI exits with code 0
\* and check_if_produced is never called
C1_ForceAnalyzeWins ==
    (CliDone /\ InForceSkip(title) /\ InForceAnalyze(title))
        => (exitCode = 0 /\ ret = NoRet)

C1_Witness ==
    /\ CliDone
    /\ InForceSkip(title) /\ InForceAnalyze(title)
    /\ title \notin overrides.force_skip
    /\ exitCode = 0

\* C2: a decision whose search call failed has written nothing: the cache in
\* memory and the cache file are what the file was when the decision began, an
\* expired entry for the title included
C2_FailedSearchWritesNothing ==
    (Returned /\ ret.reason = "ERROR") => (cacheFile = file0 /\ cache = file0)

C2_Witness ==
    /\ pc = "done" /\ ret.reason = "ERROR"
    /\ ret.details.error.exc = "ConnectError"
    /\ HadEntry /\ Age0 > 30
    /\ cacheFile.entries[Key] = file0.entries[Key]

\* C3 as stated: whenever the search failed the check-only CLI exits with code 2
C3_SearchFailureExitsWith2 ==
    (CliDone /\ ret.reason = "ERROR") => exitCode = 2

\* C4: a cached verdict is returned only for an entry at most 30 days old, it
\* is that entry, and no search or details call is made; an entry at most 30
\* days old is always returned; an older one is treated as absent and the
\* search is called
C4_CacheFreshness ==
    PastCacheCheck =>
        LET key == normalize_title(title)
            had == key \in DOMAIN file0.entries
            age == now - file0.entries[key].checked_at
        IN  IF had /\ age <= 30
            THEN /\ Returned /\ ret.reason = "CACHED"
                 /\ ret.details = file0.entries[key]
                 /\ ret.is_produced = file0.entries[key].is_produced
                 /\ searchCalls = 0 /\ detailCalls = 0
            ELSE /\ ret.reason # "CACHED"
                 /\ searchCalls = 1

C4_Witness ==
    /\ pc = "returned"
    /\ HadEntry /\ Age0 = 31
    /\ searchCalls = 1
    /\ cacheFile.entries[Key].checked_at = now

\* C5: a search with zero results stores is_produced=false, confidence=high
\* under the normalized title, in the file; a decision that finds such an entry
\* within 30 days returns not produced with no search and no details call
C5_ZeroResultsCached ==
    PastCacheCheck =>
        LET key == normalize_title(title)
            old == file0.entries[key]
        IN  /\ (Returned /\ ret.reason = "NOT PRODUCED: none found")
                 => /\ ~ret.is_produced
                    /\ key \in DOMAIN cacheFile.entries
                    /\ cacheFile.entries[key] =
                         [is_produced |-> FALSE, tmdb_id |-> PyNone, title |-> NoneSeq,
                          release_date |-> NoneSeq, status |-> PyNone,
                          checked_at |-> now, confidence |-> "high"]
            /\ (/\ key \in DOMAIN file0.entries
                /\ now - old.checked_at <= 30
                /\ ~old.is_produced /\ old.confidence = "high")
                 => /\ Returned /\ ~ret.is_produced
                    /\ searchCalls = 0 /\ detailCalls = 0
                    /\ cacheFile = file0

C5_Witness ==
    /\ pc = "done" /\ exitCode = 0
    /\ ret.reason = "CACHED" /\ ~ret.is_produced
    /\ ret.details.confidence = "high"
    /\ Age0 = 30
    /\ searchCalls = 0 /\ detailCalls = 0

\* C6: with a year context, a title-matching candidate released in a strictly
\* earlier year gets no details call and no positive verdict, and a response
\* made of such candidates alone is decided not produced; a title-matching
\* candidate of the same or a later year, or with no date, gets its details call
C6_YearContextFilter ==
    LET eligible == {j \in Reached : Eligible(j)} IN
    /\ pc = "details" => idx \in eligible
    /\ (Returned /\ ret.reason = "PRODUCED")
         => (idx \in eligible /\ ret.details.tmdb_id = results[idx].id)
    /\ detailCalls = Cardinality(eligible)
    /\ (Returned /\ ret.reason \in {"PRODUCED", "NOT PRODUCED: none matched"}
          /\ eligible = {})
         => (~ret.is_produced /\ detailCalls = 0)

C6_Witness ==
    /\ pc = "returned"
    /\ year_context = 2007
    /\ Len(results) = 1
    /\ is_title_match(title, results[1].title)
    /\ ReleasedBefore(results[1], year_context)
    /\ ~ret.is_produced /\ ret.reason = "NOT PRODUCED: none matched"
    /\ detailCalls = 0

\* C7 as stated: when the details call of a candidate has failed, the candidate
\* yields no verdict and nothing is written; the loop goes on to the next one
C7_FailedDetailsNoVerdict ==
    [][(pc = "details" /\ call.state = "raised")
         => (pc' = "loop" /\ idx' = idx + 1 /\ cacheFile' = cacheFile /\ ret' = ret)]_vars

\* C7: when the details call of a candidate has failed, a candidate with a
\* release date is taken as Released: the decision is produced and a positive
\* entry, confidence high, is written; a candidate without a release date
\* yields no verdict, nothing is written, and the loop goes on to the next one
C7_FailedDetailsFallback ==
    [][(pc = "details" /\ call.state = "raised")
         => IF results[idx].release_date # << >>
            THEN /\ pc' = "returned"
                 /\ ret'.is_produced /\ ret'.reason = "PRODUCED"
                 /\ cacheFile'.entries[Key] =
                      [is_produced |-> TRUE, tmdb_id |-> results[idx].id,
                       title |-> results[idx].title,
                       release_date |-> results[idx].release_date,
                       status |-> "Released", checked_at |-> now,
                       confidence |-> "high"]
            ELSE /\ pc' = "loop" /\ idx' = idx + 1
                 /\ cacheFile' = cacheFile /\ ret' = ret]_vars

C7_Witness ==
    /\ pc = "returned"
    /\ ret.reason = "PRODUCED"
    /\ details_status = PyNone
    /\ ret.details.status = "Released"
    /\ cacheFile.entries[Key] = ret.details

\* C8: in the check-only CLI a title matching force_skip or force_analyze is
\* decided at once, with no search call, no details call, no call of
\* check_if_produced and the cache file untouched, whatever the file holds
C8_OverridesBypass ==
    (consumer = "cli" /\ api_key /\ (InForceSkip(title) \/ InForceAnalyze(title)))
        => /\ pc = "done"
           /\ exitCode = (IF InForceAnalyze(title) THEN 0 ELSE 1)
           /\ searchCalls = 0 /\ detailCalls = 0
           /\ ret = NoRet
           /\ cacheFile = file0

C8_Witness ==
    /\ CliDone
    /\ InForceAnalyze(title) /\ exitCode = 0
    /\ HadEntry /\ Age0 <= 30 /\ file0.entries[Key].is_produced
    /\ cacheFile = file0

\* C9 as stated: no consumer reports a force_analyze title produced or a
\* force_skip title not produced; here the cleanup tool's deletion list and the
\* validation tool's report
C9_ToolsHonourOverrides ==
    /\ \A t \in toDelete : ~InForceAnalyze(t)
    /\ \A row \in report :
          /\ row[2] => ~InForceAnalyze(row[1])
          /\ ~row[2] => ~InForceSkip(row[1])

\* C10: a client call is attempted at most 3 times; it is still running only
\* with an attempt left; an exception of a retryable class leaves it only from
\* the third attempt, and the exception that leaves it reaches the caller
C10_BoundedRetry ==
    /\ call.attempts <= 3
    /\ call.state = "running" => call.attempts < 3
    /\ call.state = "raised"
         => /\ call.err # NoError
            /\ call.err.exc \in {"TimeoutException", "ConnectError", "HTTPStatusError"}
                 => call.attempts = 3
            /\ call.attempts >= 1
    /\ (Returned /\ ret.reason = "ERROR") => ret.details.error # NoError

C10_Witness ==
    /\ call.fn = "details"
    /\ call.state = "raised"
    /\ call.attempts = 3
    /\ call.err.exc = "HTTPStatusError"
    /\ searchCalls = 1
\* network_utils.py: the HTTP statuses of transient failures; any other error
\* status is a permanent client error
is_retryable_http_status(status_code) ==
    status_code \in {408, 429, 500, 502, 503, 504, 529}

\* C11 as stated: an attempt that failed with a permanent client error (HTTP 401
\* here) is the last attempt of its call: the error is out at once, the call is
\* never running again after it
C11_PermanentErrorNotRetried ==
    (call.err.exc = "HTTPStatusError" /\ ~is_retryable_http_status(call.err.code))
        => call.state = "raised"
Stored == Returned /\ ret.reason \notin {"none", "CACHED", "ERROR"}

\* C13: when two check processes for different titles, neither in the file
\* before, have both looked up, stored and saved, the file holds both new
\* entries only if one of them loaded the file after the other had saved (its
\* dictionary then has the other's entry); otherwise the later save has dropped
\* the earlier one's entry
C13_LostUpdate ==
    (Stored /\ peer.pc = "done") =>
        LET k1 == normalize_title(title)
            k2 == normalize_title(peer.title)
        IN  (k1 # k2 /\ k1 \notin DOMAIN file0.entries
                     /\ k2 \notin DOMAIN file0.entries) =>
              ((k1 \in DOMAIN cacheFile.entries /\ k2 \in DOMAIN cacheFile.entries)
                 <=> (k2 \in DOMAIN cache.entries \/ k1 \in DOMAIN peer.cache.entries))

C13_Witness ==
    /\ Stored /\ peer.pc = "done"
    /\ ~torn
    /\ file0 = EmptyCache
    /\ normalize_title(title) # normalize_title(peer.title)
    /\ normalize_title(peer.title) \in DOMAIN cacheFile.entries
    /\ normalize_title(title) \notin DOMAIN cacheFile.entries

\* C14 as stated: no process reads the cache file while it is a cut-off
\* document, and a writer that was killed leaves a complete document behind
C14_FileAlwaysWhole ==
    /\ pc = "check" => ~torn
    /\ peer.pc = "killed" => ~torn
\* C15 as stated: whatever damage the cache file has, a run of the check-only
\* CLI ends with a verdict of check_if_produced (exit code 0 or 1, or the
\* search error of C3), and a title whose entry carries an unparsable
\* checked_at is looked up as if it had no entry
C15_DamagedFileNeverFatal ==
    /\ CliDone => (ret.reason # "none" /\ exitCode \in {0, 1})
    /\ (PastCacheCheck /\ consumer = "cli"
          /\ get_cached_raises(title, file0))
         => (ret.reason # "CACHED" /\ searchCalls = 1)

C17_Idempotent ==
    probe.stage = "out" => probe.twice = probe.key_a

\* C17, amended: a pass strips one leading article, so the second pass gives the
\* key without its own leading article, if it has one.  An article put in front
\* of a title that begins with an article leaves that title, lower-cased, as
\* the key, and the second pass gives the key of the title itself; a change of
\* case, a punctuation character put in and a hyphen for a space give keys that
\* the second pass leaves as they are.
C17_SecondPassStripsOneArticle ==
    LET b == probe.b
        leadsWithArticle == StripArticle(Strip(Lower(b))) # Strip(Lower(b))
    IN  probe.stage = "out" =>
            /\ probe.twice = StripArticle(probe.key_a)
            /\ (probe.kind = "article" /\ leadsWithArticle) =>
                   /\ probe.key_a = Strip(Lower(b))
                   /\ probe.twice = probe.key_b
                   /\ probe.twice # probe.key_a
            /\ (probe.kind = "article" /\ ~leadsWithArticle) => probe.twice = probe.key_a
            /\ probe.kind \in {"case", "punct", "hyphen"} => probe.twice = probe.key_a

\* "The The Movie" gives "the movie", and "the movie" gives "movie"
C17_Witness ==
    /\ probe.stage = "out"
    /\ probe.a = Titles.the_the_movie
    /\ probe.key_a = Lower(Titles.the_movie)
    /\ probe.twice = normalize_title(Titles.the_movie)
    /\ probe.twice # probe.key_a

\* C18: isMatch is false when either key is empty; else true when the keys are
\* equal or one is contained in the other, whatever the similarity ratio; and
\* only otherwise the comparison of the ratio with the threshold.
C18_MatchRuleOrder ==
    LET ka == probe.key_a
        kb == probe.key_b
        empty == ka = << >> \/ kb = << >>
        contained == ka = kb \/ IsSubstring(ka, kb) \/ IsSubstring(kb, ka)
    IN  probe.stage = "out" =>
            /\ empty => ~probe.match
            /\ (~empty /\ contained) => probe.match
            /\ (~empty /\ ~contained) => (probe.match <=> RatioAtLeast(ka, kb))

\* "Juno" against "Juno: A Film": a match by containment, with a ratio of
\* 8/14, below the threshold
C18_Witness ==
    /\ probe.stage = "out"
    /\ probe.a = T_JUNO
    /\ probe.b = Titles.juno_film
    /\ probe.match
    /\ probe.key_a # probe.key_b
    /\ ~RatioAtLeast(probe.key_a, probe.key_b)

\* C19: "Hanna" with the year context 2006 on an empty cache, the search
\* returning "Hanna" (2011-04-01) and "Hannah and Her Sisters" (1986-02-01) in
\* either order: details are asked for the film of 2011 alone, and when they
\* say Released the verdict is produced, with the title "Hanna" and the release
\* date 2011-04-01; the film of 1986 is never the match.
C19_HannaNotHannah ==
    (title = T_HANNA /\ year_context = 2006 /\ file0 = EmptyCache /\ Len(results) = 2) =>
        /\ pc = "details" => results[idx].id = "h1"
        /\ (Returned /\ ret.is_produced) => ret.details.tmdb_id = "h1"
        /\ (Returned /\ details_status = "Released") =>
               /\ ret.is_produced
               /\ ret.details.title = T_HANNA
               /\ ret.details.release_date = <<"2", "0", "1", "1", "-", "0", "4", "-", "0", "1">>

\* the film of 1986 came first in the list and was passed over
C19_Witness ==
    /\ CliDone
    /\ title = T_HANNA
    /\ year_context = 2006
    /\ file0 = EmptyCache
    /\ Len(results) = 2
    /\ results[1].id = "h2"
    /\ details_status = "Released"
    /\ detailCalls = 1
    /\ ret.is_produced
    /\ ret.details.title = T_HANNA
    /\ exitCode = 1

\* C20: once check_tmdb has come back, the driver skips the analysis exactly
\* when the child exited with code 1; on exit code 0 or 2, on the timeout of
\* subprocess.run and on a failure to start the child it goes on to the
\* analysis.
C20_SkipOnlyOnExitCode1 ==
    batch.outcome # "none" =>
        /\ batch.pc \in {"skipped", "analysis"}
        /\ batch.pc = "skipped" <=> (batch.outcome = "exit" /\ batch.rc = 1)
        /\ batch.outcome = "exit" => (batch.rc = exitCode /\ batch.rc \in {0, 1, 2})
        /\ batch.outcome # "exit" => batch.outcome \in {"TimeoutExpired", "Exception"}

\* the child found no API key and exited with 2: the analysis goes ahead
C20_Witness ==
    /\ batch.pc = "analysis"
    /\ batch.outcome = "exit"
    /\ batch.rc = 2
    /\ consumer = "cli"
    /\ ~api_key
    /\ exitCode = 2

\* C21: with the pre-screening on, a screenplay whose title the check holds to
\* be produced (a fresh positive entry is in the cache) does not reach the
\* analysis: the check has been run for it, the return code is 1 and
\* skipped_produced has been incremented.
C21_ProducedIsSkipped ==
    (/\ ingest.rc # -1
     /\ CacheHit(ingest.title, cacheFile, now)
     /\ get_cached_result(ingest.title, cacheFile).is_produced)
        => (ingest.pc = "skipped" /\ ingest.rc = 1 /\ ingest.skipped_produced = 1)

\* C22: the cleanup tool removes an analysis file only in a run with --execute,
\* only for a title whose decision in this run returned is_produced = TRUE, and
\* only with the copy in the backup directory; a title gets on the list of
\* deletions only by such a decision, so a file whose check raised or returned
\* an error is kept.
C22_DeleteOnlyProducedWithBackup ==
    [][/\ \A t \in fs.files \ fs'.files :
             t \in toDelete /\ t \in fs'.backups /\ fs.execute
       /\ \A t \in toDelete' \ toDelete :
             pc = "returned" /\ ret.is_produced /\ t = title /\ ret.reason # "ERROR"]_vars

\* a run has ended: the file of the produced title is gone and in the backup
\* directory, the file of the other title, found not produced, is kept
C22_Witness ==
    /\ pc = "done"
    /\ consumer = "cleanup"
    /\ fs.index_written
    /\ \E t \in toDelete : t \notin fs.files /\ t \in fs.backups
    /\ title \notin toDelete
    /\ title \in fs.files
    /\ ~ret.is_produced
    /\ ret.reason # "none"

\* C23: in a run with --dry-run, whatever else was given, no analysis file is
\* removed and index.json is not rewritten.
C23_DryRunDeletesNothing ==
    [][(consumer = "cleanup" /\ fs.dry_run /\ pc = "deleting")
          => (fs'.files = fs.files /\ fs'.index_written = fs.index_written)]_vars

\* C24: when the search returned at least one candidate and the decision is
\* not "produced", the decision is is_produced = FALSE and the entry written
\* for the title is negative with confidence "medium".
C24_NoneQualifiedIsMedium ==
    (Returned /\ Len(results) >= 1 /\ ret.reason # "ERROR") =>
        LET entry == cacheFile.entries[normalize_title(title)] IN
        /\ ret.details = entry
        /\ entry.checked_at = now
        /\ ret.reason = "PRODUCED" <=> ret.is_produced
        /\ ~ret.is_produced =>
               /\ ~entry.is_produced
               /\ entry.confidence = "medium"
               /\ ret.reason = "NOT PRODUCED: none matched"

\* two candidates came back, one did not pass the filters, one was found
\* "Planned"
C24_Witness ==
    /\ CliDone
    /\ Len(results) = 2
    /\ detailCalls = 1
    /\ details_status = "Planned"
    /\ ~ret.is_produced
    /\ exitCode = 0
    /\ cacheFile.entries[normalize_title(title)].confidence = "medium"

\* C25: the candidates are examined in the order of the search response, from
\* the first: a candidate that fails the title match or the year filter is
\* passed over without a details call, one that passes gets the one details
\* call made for it; a candidate found not produced is followed by the next
\* one; the first found produced is the one recorded, and once the decision has
\* returned no further candidate is examined and no further call is made.
C25_FirstProducedInOrder ==
    [][/\ (pc = "search" /\ pc' = "loop") => idx' = 1
       /\ (pc = "loop" /\ idx <= Len(results)) =>
             IF Eligible(idx)
             THEN pc' = "details" /\ idx' = idx /\ detailCalls' = detailCalls + 1
             ELSE pc' = "loop" /\ idx' = idx + 1 /\ detailCalls' = detailCalls
       /\ pc = "details" =>
             /\ detailCalls' = detailCalls
             /\ \/ pc' = "details" /\ idx' = idx
                \/ pc' = "loop" /\ idx' = idx + 1 /\ ret' = ret
                \/ /\ pc' = "returned" /\ idx' = idx
                   /\ ret'.is_produced
                   /\ ret'.details.tmdb_id = results[idx].id
                   /\ ret'.details.title = results[idx].title
       /\ (Returned /\ title' = title /\ nChecks' = nChecks) =>
             (idx' = idx /\ detailCalls' = detailCalls /\ ret' = ret)]_vars

\* the first of two candidates that both pass was found produced: one details
\* call, the second never looked at
C25_Witness ==
    /\ CliDone
    /\ ret.reason = "PRODUCED"
    /\ Len(results) = 2
    /\ idx = 1
    /\ detailCalls = 1
    /\ Eligible(2)
    /\ ret.details.tmdb_id = results[1].id

\* C26 as stated: the wait before the second attempt of a retried call is 2
\* seconds, the wait before the third is 4 seconds, and no wait exceeds 10.
C26_WaitsTwoThenFour ==
    /\ Len(call.slept) >= 1 => call.slept[1] = 2
    /\ Len(call.slept) >= 2 => call.slept[2] = 4
    /\ \A i \in 1..Len(call.slept) : call.slept[i] <= 10

\* C26, amended: a retried call sleeps after each failed attempt but the last,
\* at most twice, never less than 2 seconds and never more than 10; the wait
\* before the second attempt is 2 seconds; the wait before the third is 2
\* seconds with a library that takes 2 ** (attempt_number - 1), and 4 seconds
\* with one that takes 2 ** attempt_number.
C26_WaitsOfRetriedCall ==
    /\ Len(call.slept) = IF call.state = "raised" THEN call.attempts - 1 ELSE call.attempts
    /\ Len(call.slept) <= MaxAttempts - 1
    /\ \A i \in 1..Len(call.slept) : call.slept[i] >= 2 /\ call.slept[i] <= 10
    /\ Len(call.slept) >= 1 => call.slept[1] = 2
    /\ Len(call.slept) >= 2 =>
          call.slept[2] = IF tenacity = "attempt_number - 1" THEN 2 ELSE 4

\* three failed attempts with the current formula: two waits of 2 seconds
C26_Witness ==
    /\ tenacity = "attempt_number - 1"
    /\ call.state = "raised"
    /\ call.attempts = 3
    /\ call.slept = <<2, 2>>

\* C27: a decision leaves every entry of the cache file under another key as it
\* was, adds no key but the normalized title, and writes nothing unless it
\* stores a verdict; the entry it stores is the one it returns, built afresh
\* from the verdict alone and stamped with the time of the write, so that no
\* field of the entry it replaces is left.
C27_WholesaleReplace ==
    LET k == normalize_title(title)
        old == file0.entries
        new == cacheFile.entries
    IN  consumer = "cli" =>
            /\ DOMAIN old \subseteq DOMAIN new
            /\ DOMAIN new \subseteq DOMAIN old \cup {k}
            /\ \A e \in DOMAIN old \ {k} : new[e] = old[e]
            /\ ~Stored => new = old
            /\ Stored =>
                  /\ new[k] = ret.details
                  /\ new[k].checked_at = now
                  /\ \/ new[k] = NegativeEntry("high", now)
                     \/ new[k] = NegativeEntryNoMatch(now, Len(results))
                     \/ \E j \in 1..Len(results), st \in PRODUCED_STATUSES :
                           new[k] = PositiveEntry(results[j], st, now)

\* an expired negative entry with a note has been replaced by a positive one,
\* which has none
C27_Witness ==
    /\ CliDone
    /\ Stored
    /\ HadEntry
    /\ "note" \in DOMAIN file0.entries[Key]
    /\ ret.is_produced
    /\ "note" \notin DOMAIN cacheFile.entries[Key]
    /\ cacheFile.entries[Key].checked_at = now
    /\ file0.entries[Key].checked_at = 0

DecideEnabled ==
    \/ pc \in {"check", "loop"}
    \/ pc \in {"search", "details"} /\ call.state \in {"running", "raised"}

\* one run of the CLI whose process keeps executing: a step of
\* check_if_produced that can be taken is taken, every HTTP attempt returning
\* or raising (httpx.Client(timeout=30.0)), and main then exits. The first
\* condition is WF_vars(Decide) with ENABLED <<Decide>>_vars written out as
\* DecideEnabled.
SpecTermination ==
    /\ Init
    /\ [][NextBackoff]_vars
    /\ ([]<>(~DecideEnabled) \/ []<><<Decide>>_vars)
    /\ WF_vars(CliFinish)

\* C29: a decision that has begun returns its result; on the way it calls
\* search_tmdb once and get_movie_details at most once for each candidate of
\* the search, and no call of either is attempted more than 3 times
C29_DecisionTerminates ==
    /\ [](/\ call.attempts <= 3
          /\ searchCalls <= 1
          /\ detailCalls <= idx
          /\ idx <= Len(results) + 1
          /\ detailCalls <= Len(results))
    /\ (pc = "check") ~> (Returned /\ ret.reason # "none" /\ ret.details # NoRet.details)

\* a decision has returned after a details call for each of the two candidates
\* of its search, the last of which let its exception out
C29_Witness ==
    /\ CliDone
    /\ Returned
    /\ searchCalls = 1
    /\ Len(results) = 2
    /\ detailCalls = 2
    /\ details_status = PyNone
    /\ ret.reason = "PRODUCED"

\* C30: after any sequence of decisions, every entry of the file with
\* is_produced true has confidence high, one of the statuses Released, Post
\* Production and In Production, and the id and title of a film of the
\* service that is_title_match accepts for a query of its key; every entry
\* with is_produced false has no tmdb_id, title, release_date or status. The
\* entry a decision has just written has the title of the candidate of its
\* own search at which the loop stopped.
C30_EntryShapes ==
    /\ \A k \in DOMAIN cacheFile.entries :
          LET e == cacheFile.entries[k] IN
          IF e.is_produced
          THEN /\ e.confidence = "high"
               /\ e.status \in {"Released", "Post Production", "In Production"}
               /\ \E c \in Catalog :
                     /\ e.tmdb_id = c.id /\ e.title = c.title
                     /\ e.release_date = c.release_date
                     /\ \E t \in QueryTitles :
                           normalize_title(t) = k /\ is_title_match(t, c.title)
          ELSE /\ e.tmdb_id = PyNone /\ e.status = PyNone
               /\ e.title = NoneSeq /\ e.release_date = NoneSeq
               /\ e.confidence \in {"high", "medium"}
    /\ (Stored /\ ret.is_produced) =>
          /\ idx \in 1..Len(results)
          /\ cacheFile.entries[Key].title = results[idx].title
          /\ cacheFile.entries[Key].tmdb_id = results[idx].id
          /\ is_title_match(title, results[idx].title)

\* after two decisions the file holds a positive entry whose status was assumed
\* when the details call failed, and a negative entry of a search with no match
C30_Witness ==
    /\ CliDone
    /\ nChecks = 2
    /\ Cardinality(DOMAIN cacheFile.entries) = 2
    /\ \E k \in DOMAIN cacheFile.entries :
          /\ cacheFile.entries[k].is_produced
          /\ cacheFile.entries[k].status = "Released"
    /\ \E k \in DOMAIN cacheFile.entries :
          /\ ~cacheFile.entries[k].is_produced
          /\ cacheFile.entries[k].confidence = "medium"
    /\ Stored
====
